---------------------------- MODULE Spec2Model ----------------------------
(***************************************************************************)
(* A model of the portfolio-builder client (ashusevim/hacktober-appwrite): *)
(*   - AuthService (services/auth.ts): login, register, logout,            *)
(*     logoutAllSessions, getCurrentUser, updateProfile and the            *)
(*     schema-drift writer createUserDocument;                             *)
(*   - the Appwrite backend as the external collaborator those calls talk  *)
(*     to: accounts, the session this client holds, the users collection   *)
(*     and the attributes that collection lacks.                           *)
(* Every await of the source is one step of the model; a backend call may  *)
(* fail at any step.  One AuthService call is in flight at a time.         *)
(***************************************************************************)
EXTENDS Integers, Sequences, FiniteSets, TLC

(***************************************************************************)
(* Bounds of the model.                                                    *)
(***************************************************************************)
\* At most this many attributes are absent from the backend users collection.
MaxDrift == 2
\* At most this many keys in the data object handed to updateProfile.
MaxDataKeys == 2

\* The identities of the model; an identity's e-mail address and account id
\* are both written as the identity itself (the backend keeps them one-to-one).
Ids == {"A", "B"}
\* "No identity": no session, no user, a null result.
None == "none"

(***************************************************************************)
(* auth.ts: field sets.                                                    *)
(***************************************************************************)
\* auth.ts 20-30: the initial value of the module-level set USER_UPDATE_FIELDS.
UserUpdatableField ==
    {"name", "bio", "avatar", "website", "location", "pronouns",
     "availability", "skills", "socialLinks"}

\* auth.ts 166: the fields createUserDocument never strips.
MandatoryFieldsNoOwner == {"name", "email"}
MandatoryFields == {"name", "email", "createdBy"}

\* auth.ts 277-286: the keys of the default profile data of register.
RegisterDefaults ==
    {"bio", "avatar", "website", "location", "pronouns", "availability",
     "skills", "socialLinks"}

\* auth.ts 230-234: the payload login hands to createUserDocument.
LoginProfilePayloadOptionalOnly == {"bio", "avatar"}
LoginProfilePayload == {"email", "name", "createdBy"}

\* Every attribute name a payload of this client can hold.
Fields == UserUpdatableField \cup MandatoryFields

\* The attributes the backend collection may lack in the model: the three
\* mandatory ones and three of the eight optional ones (the code treats the
\* eight optional updatable fields alike).
DriftCandidates == {"name", "email", "createdBy", "bio", "avatar", "skills"}

\* The keys updateProfile's callers may pass: updatable ones and, since the
\* argument is a Partial<User>, keys that are not updatable.
DataKeys == {"name", "bio", "avatar", "skills", "email"}

\* The writer loops are "while (true)": the model stops an operation that has
\* made this many attempts, more than any payload has fields.
AttemptCap == Cardinality(Fields) + 2

VARIABLES
    \* ---- backend (external collaborator) ----
    configOk,            \* the REACT_APP_APPWRITE_* identifiers are all set
    missingAttrs,        \* attributes the users collection does not have
    accounts,            \* identities that have an account
    session,             \* identity of the session this client holds, or None
    userDocs,            \* ids that have a profile document
    \* ---- auth.ts module state ----
    USER_UPDATE_FIELDS,  \* auth.ts 20: shrinks when a field is found unknown
    \* ---- the AuthService call in flight ----
    pc,                  \* "idle", the await the call is at, or "done"
    opKind,              \* login | register | updateProfile | logout | logoutAllSessions
    opEmail,             \* login/register: the email argument
    opUser,              \* accountData.$id
    payload,             \* payload / remainingPayload (its keys)
    nFields,             \* number of fields of the writer's initial payload
    initialPayload,      \* the writer's initial payload (its keys)
    attempts,            \* createDocument / updateDocument calls made so far
    lastAnswer,          \* the backend's answer to the last write attempt
    isLoggedInLocal,     \* login: const isLoggedIn
    logoutResult,        \* login: "notcalled" | "ok" | "failed"
    sessionAtStart,      \* the session when the call was made
    docCreated,          \* createUserDocument succeeded in this call
    nameWrite,           \* updateProfile: what became of data.name
    outcome,             \* "none" | "returned" | "thrown"
    retUser,             \* the User returned (its $id), or None
    reported             \* fields some unknown-attribute failure has named

backendVars == <<configOk, missingAttrs, accounts, session, userDocs>>
opVars == <<pc, opKind, opEmail, opUser, payload, nFields, initialPayload,
            attempts, lastAnswer,
            isLoggedInLocal, logoutResult, sessionAtStart, docCreated, nameWrite,
            outcome, retUser>>
authVars == <<backendVars, USER_UPDATE_FIELDS, opVars, reported>>

VARIABLES
    \* ---- the record mappers applied to one backend record ----
    rawDoc,              \* the backend record (attribute -> JS value)
    mapKind,             \* "none" | "user" | "project": the mapper applied
    mapResult,           \* the entity it returned
    \* ---- one PortfolioService.getProjects call by any caller ----
    listCall,            \* the call made: its state and its userId argument
    listResult,          \* the list the call returned
    \* ---- the projects collection and the PortfolioProvider ----
    projDocs,            \* backend: the documents of the projects collection
    nextId,              \* backend: the id ID.unique() yields next
    clock,               \* backend: the time of the last $createdAt
    user,                \* useAuth().user ($id), or None
    projects,            \* useState: the in-memory project list
    loading,             \* useState: loading
    error,               \* useState: error ("null" or a message)
    settled,             \* how the provider call that ended last settled
    ops,                 \* the provider calls in flight, by slot
    deleted,             \* ids whose deleteProject has completed successfully
    calls                \* the number of provider calls made so far

VARIABLES
    \* ---- the PublicPortfolio page (ProfileDrawer.tsx 445-488) ----
    page,                \* useParams().userId and the four useState values
    loads,               \* the userId of every loadPortfolio call in flight
    visits               \* the number of times the effect has run

mapVars == <<rawDoc, mapKind, mapResult>>
listVars == <<listCall, listResult>>
portVars == <<projDocs, nextId, clock, user, projects, loading, error, settled, ops,
              deleted, calls>>
pageVars == <<page, loads, visits>>
nonAuthVars == <<mapVars, listVars, portVars, pageVars>>
vars == <<authVars, mapVars, listVars, portVars, pageVars>>

\* The parts of the state a specification does not use stay as they are here.
MapperIdle == rawDoc = <<>> /\ mapKind = "none" /\ mapResult = <<>>
NoListCall == [st |-> "none", userId |-> None]
ListingIdle == listCall = NoListCall /\ listResult = <<>>
PortfolioIdle ==
    /\ projDocs = {}
    /\ nextId = 1
    /\ clock = 1
    /\ user = None
    /\ projects = <<>>
    /\ loading = FALSE
    /\ error = "null"
    /\ settled = "none"
    /\ ops = <<>>
    /\ deleted = {}
    /\ calls = 0

\* ProfileDrawer.tsx 447-450: the page before its effect has run.
NoPage ==
    [userId |-> None, owner |-> None, projects |-> <<>>, loading |-> TRUE,
     error |-> ""]
PageIdle == page = NoPage /\ loads = <<>> /\ visits = 0

(***************************************************************************)
(* auth.ts: pure helpers.                                                  *)
(***************************************************************************)
\* auth.ts 32-33
isUserUpdatableField(value) == value \in USER_UPDATE_FIELDS

\* auth.ts 48-84: the keys of the sanitized payload.  No key of the data
\* objects of the model holds undefined.
sanitizeUserUpdateDataNoFilter(data) == data
sanitizeUserUpdateData(data) == {key \in data : isUserUpdatableField(key)}

\* auth.ts 166
IsMandatoryWeak(f) == f \in MandatoryFieldsNoOwner
IsMandatory(f) == f \in MandatoryFields

\* auth.ts 178: Object.keys(payload).length === 0
NoValidFieldsRemainNever(p) == FALSE
NoValidFieldsRemain(p) == p = {}

\* auth.ts 172 / 407: delete payload[unknownAttribute]
DeleteFieldNoop(p, f) == p
DeleteFieldAndOptional(p, f) == p \cap MandatoryFields
DeleteField(p, f) == p \ {f}

\* auth.ts 35-46: the attribute an 'Unknown attribute: "<name>"' failure
\* names, null (None) for any other failure.
extractUnknownAttributeOfAnyError(ans) == IF ans \in Fields THEN ans ELSE "bio"
extractUnknownAttribute(ans) == IF ans \in Fields THEN ans ELSE None

\* auth.ts 371-377, 393-400: updateProfile has not touched a name: data.name
\* is not set (inData), account.updateName has not succeeded (account) and
\* no updateDocument holding the name has succeeded (document).
NoNameWrite == [inData |-> FALSE, account |-> FALSE, document |-> FALSE]

(***************************************************************************)
(* The backend's answers.                                                  *)
(***************************************************************************)
\* databases.createDocument(users, id, p): "ok", "other" (any failure that is
\* not an unknown-attribute failure) or the name of an attribute of p the
\* collection lacks ('Unknown attribute: "<name>"').
CreateDocumentAnswers(id, p) ==
    {"other"} \cup (p \cap missingAttrs)
      \cup (IF p \cap missingAttrs = {} /\ id \notin userDocs THEN {"ok"} ELSE {})

\* databases.updateDocument(users, id, p)
UpdateDocumentAnswers(id, p) ==
    {"other"} \cup (p \cap missingAttrs)
      \cup (IF p \cap missingAttrs = {} /\ id \in userDocs THEN {"ok"} ELSE {})

\* databases.getDocument(users, id) as getUserProfile sees it (auth.ts 436-442):
\* "config" when validateConfig throws and no request is made, "ok" for an
\* existing document, "404" (document, collection or database not found) or
\* "other" for any other failure.
GetDocumentAnswers(id) ==
    IF ~configOk THEN {"config"}
    ELSE {"404", "other"} \cup (IF id \in userDocs THEN {"ok"} ELSE {})

\* auth.ts 444-450: what getUserProfile does with the answer.
getUserProfileResultNullOnAnyFailure(ans) ==
    IF ans = "ok" THEN "user" ELSE "null"
getUserProfileResult(ans) ==
    CASE ans = "ok" -> "user"
      [] ans = "404" -> "null"
      [] OTHER -> "throw"

\* auth.ts 328-363 getCurrentUser: the $id of the User it returns, None for
\* null, "throw" for a configuration error.
getCurrentUserNoDocCheck ==
    IF ~configOk THEN {"throw"}
    ELSE {None, "throw"} \cup (IF session # None THEN {session} ELSE {})
getCurrentUser ==
    IF ~configOk THEN {"throw"}
    ELSE {None, "throw"}
           \cup (IF session # None /\ session \in userDocs THEN {session} ELSE {})

\* auth.ts 198-215: what login does with the result of getCurrentUser when
\* isLoggedIn is true.
AfterSessionCheckNoLogout(currentUser, email) ==
    IF currentUser # None /\ currentUser = email THEN "return"
    ELSE "login_createSession"
AfterSessionCheck(currentUser, email) ==
    IF currentUser # None /\ currentUser = email THEN "return"
    ELSE "login_logoutAllSessions"

(***************************************************************************)
(* Initial state: a fresh page load against an empty backend project.      *)
(***************************************************************************)
IdleLocals ==
    /\ pc = "idle"
    /\ opKind = "none"
    /\ opEmail = None
    /\ opUser = None
    /\ payload = {}
    /\ nFields = 0
    /\ initialPayload = {}
    /\ attempts = 0
    /\ lastAnswer = "none"
    /\ isLoggedInLocal = FALSE
    /\ logoutResult = "notcalled"
    /\ sessionAtStart = None
    /\ docCreated = FALSE
    /\ nameWrite = NoNameWrite
    /\ outcome = "none"
    /\ retUser = None

AuthInit ==
    /\ configOk \in BOOLEAN
    /\ missingAttrs \in {m \in SUBSET DriftCandidates : Cardinality(m) <= MaxDrift}
    /\ accounts = {}
    /\ session = None
    /\ userDocs = {}
    /\ USER_UPDATE_FIELDS = UserUpdatableField
    /\ reported = {}
    /\ IdleLocals

\* The call ends: it returns u (outcome "returned") or throws.
Return(u) == pc' = "done" /\ outcome' = "returned" /\ retUser' = u
Throw == pc' = "done" /\ outcome' = "thrown" /\ retUser' = None
Goto(l) == pc' = l /\ UNCHANGED <<outcome, retUser>>

\* A call starts.
Begin(kind, email) ==
    /\ pc = "idle"
    /\ opKind' = kind
    /\ opEmail' = email
    /\ sessionAtStart' = session
    /\ UNCHANGED <<USER_UPDATE_FIELDS, reported, opUser, nFields, initialPayload, attempts,
                   lastAnswer, isLoggedInLocal, logoutResult, docCreated, nameWrite>>

(***************************************************************************)
(* auth.ts 190-269 login                                                   *)
(***************************************************************************)
\* 190-195: login(email, password) is called.
login(email) ==
    /\ Begin("login", email)
    /\ Goto("login_isLoggedIn")
    /\ UNCHANGED <<backendVars, payload>>
    /\ UNCHANGED nonAuthVars

\* 195, 425-432: isLoggedIn: account.get() succeeds only with a session.
login_isLoggedIn ==
    /\ pc = "login_isLoggedIn"
    /\ \E ok \in (IF session # None THEN BOOLEAN ELSE {FALSE}) :
          /\ isLoggedInLocal' = ok
          /\ Goto(IF ok THEN "login_getCurrentUser" ELSE "login_createSession")
    /\ UNCHANGED <<backendVars, USER_UPDATE_FIELDS, reported, opKind, opEmail,
                   opUser, payload, nFields, initialPayload, attempts, lastAnswer, logoutResult,
                   sessionAtStart, docCreated, nameWrite>>
    /\ UNCHANGED nonAuthVars

\* 198-215: already logged in: same user, or log the sessions out first.
login_getCurrentUser ==
    /\ pc = "login_getCurrentUser"
    /\ \E cur \in getCurrentUser :
          IF cur = "throw" THEN Throw
          ELSE IF AfterSessionCheck(cur, opEmail) = "return" THEN Return(cur)
          ELSE Goto(AfterSessionCheck(cur, opEmail))
    /\ UNCHANGED <<backendVars, USER_UPDATE_FIELDS, reported, opKind, opEmail,
                   opUser, payload, nFields, initialPayload, attempts, lastAnswer,
                   isLoggedInLocal, logoutResult, sessionAtStart, docCreated, nameWrite>>
    /\ UNCHANGED nonAuthVars

\* 208-213, 316-326: logoutAllSessions; login continues when it fails.
login_logoutAllSessions ==
    /\ pc = "login_logoutAllSessions"
    /\ \E ok \in BOOLEAN :
          /\ session' = IF ok THEN None ELSE session
          /\ logoutResult' = IF ok THEN "ok" ELSE "failed"
    /\ Goto("login_createSession")
    /\ UNCHANGED <<configOk, missingAttrs, accounts, userDocs, USER_UPDATE_FIELDS,
                   reported, opKind, opEmail, opUser, payload, nFields, initialPayload, attempts,
                   lastAnswer, isLoggedInLocal, sessionAtStart, docCreated, nameWrite>>
    /\ UNCHANGED nonAuthVars

\* 217-219: account.createEmailPasswordSession(email, password).  It can
\* succeed only for an existing account; with a session still active the
\* backend either refuses or replaces the session.
login_createSession ==
    /\ pc = "login_createSession"
    /\ \E ok \in (IF opEmail \in accounts THEN BOOLEAN ELSE {FALSE}) :
          IF ok THEN session' = opEmail /\ Goto("login_getCurrentUser2")
          ELSE UNCHANGED session /\ Throw
    /\ UNCHANGED <<configOk, missingAttrs, accounts, userDocs, USER_UPDATE_FIELDS,
                   reported, opKind, opEmail, opUser, payload, nFields, initialPayload, attempts,
                   lastAnswer, isLoggedInLocal, logoutResult, sessionAtStart,
                   docCreated, nameWrite>>
    /\ UNCHANGED nonAuthVars

\* 224-225, 251-252: the profile of the new session.
login_getCurrentUser2 ==
    /\ pc = "login_getCurrentUser2"
    /\ \E cur \in getCurrentUser :
          IF cur = "throw" THEN Throw
          ELSE IF cur = None THEN Goto("login_accountGet")
          ELSE Return(cur)
    /\ UNCHANGED <<backendVars, USER_UPDATE_FIELDS, reported, opKind, opEmail,
                   opUser, payload, nFields, initialPayload, attempts, lastAnswer,
                   isLoggedInLocal, logoutResult, sessionAtStart, docCreated, nameWrite>>
    /\ UNCHANGED nonAuthVars

\* 229-234: account.get(), then createUserDocument with the three identity
\* fields; a failure is rethrown by the catch of 242-249.
login_accountGet ==
    /\ pc = "login_accountGet"
    /\ \E ok \in (IF session # None THEN BOOLEAN ELSE {FALSE}) :
          IF ok
          THEN /\ opUser' = session
               /\ payload' = LoginProfilePayload
               /\ nFields' = Cardinality(LoginProfilePayload)
               /\ initialPayload' = payload'
               /\ Goto("createUserDocument")
          ELSE /\ UNCHANGED <<opUser, payload, nFields, initialPayload>>
               /\ Throw
    /\ UNCHANGED <<backendVars, USER_UPDATE_FIELDS, reported, opKind, opEmail,
                   attempts, lastAnswer, isLoggedInLocal, logoutResult,
                   sessionAtStart, docCreated, nameWrite>>
    /\ UNCHANGED nonAuthVars

\* 237-241: the user is read again after its document was created.
login_getCurrentUser3 ==
    /\ pc = "login_getCurrentUser3"
    /\ \E cur \in getCurrentUser :
          IF cur \in {"throw", None} THEN Throw ELSE Return(cur)
    /\ UNCHANGED <<backendVars, USER_UPDATE_FIELDS, reported, opKind, opEmail,
                   opUser, payload, nFields, initialPayload, attempts, lastAnswer,
                   isLoggedInLocal, logoutResult, sessionAtStart, docCreated, nameWrite>>
    /\ UNCHANGED nonAuthVars

(***************************************************************************)
(* auth.ts 150-188 createUserDocument: one pass of the while (true) loop.  *)
(***************************************************************************)
createUserDocument ==
    /\ pc = "createUserDocument"
    /\ attempts < AttemptCap
    /\ attempts' = attempts + 1
    /\ \E ans \in CreateDocumentAnswers(opUser, payload) :
          LET unknownAttribute == extractUnknownAttribute(ans) IN
          /\ lastAnswer' = ans
          /\ CASE ans = "ok" ->
                    /\ userDocs' = userDocs \cup {opUser}
                    /\ docCreated' = TRUE
                    /\ IF opKind = "login" THEN Goto("login_getCurrentUser3")
                       ELSE Return(opUser)
                    /\ UNCHANGED <<payload, USER_UPDATE_FIELDS, reported>>
               [] ans # "ok" /\ unknownAttribute = None ->
                    /\ Throw
                    /\ UNCHANGED <<userDocs, docCreated, payload,
                                   USER_UPDATE_FIELDS, reported>>
               [] OTHER ->
                    /\ reported' = reported \cup {unknownAttribute}
                    /\ UNCHANGED <<userDocs, docCreated>>
                    /\ IF IsMandatory(unknownAttribute)
                       THEN /\ Throw
                            /\ UNCHANGED <<payload, USER_UPDATE_FIELDS>>
                       ELSE /\ payload' = DeleteField(payload, unknownAttribute)
                            /\ USER_UPDATE_FIELDS' =
                                 IF isUserUpdatableField(unknownAttribute)
                                 THEN USER_UPDATE_FIELDS \ {unknownAttribute}
                                 ELSE USER_UPDATE_FIELDS
                            /\ IF NoValidFieldsRemain(payload') THEN Throw
                               ELSE Goto("createUserDocument")
    /\ UNCHANGED <<configOk, missingAttrs, accounts, session, opKind, opEmail,
                   opUser, nFields, initialPayload, isLoggedInLocal, logoutResult,
                   sessionAtStart, nameWrite>>
    /\ UNCHANGED nonAuthVars

(***************************************************************************)
(* auth.ts 271-302 register                                                *)
(***************************************************************************)
\* 271-273: register(email, password, name) is called; validateConfig().
register(email) ==
    /\ Begin("register", email)
    /\ IF configOk THEN Goto("register_accountCreate") ELSE Throw
    /\ UNCHANGED <<backendVars, payload>>
    /\ UNCHANGED nonAuthVars

\* 275-293: account.create, then the payload of createUserDocument.
register_accountCreate ==
    /\ pc = "register_accountCreate"
    /\ \E ok \in (IF opEmail \notin accounts THEN BOOLEAN ELSE {FALSE}) :
          IF ok
          THEN /\ accounts' = accounts \cup {opEmail}
               /\ opUser' = opEmail
               /\ payload' = {"name", "email", "createdBy"}
                               \cup sanitizeUserUpdateData(RegisterDefaults)
               /\ nFields' = Cardinality(payload')
               /\ initialPayload' = payload'
               /\ Goto("createUserDocument")
          ELSE /\ UNCHANGED <<accounts, opUser, payload, nFields, initialPayload>>
               /\ Throw
    /\ UNCHANGED <<configOk, missingAttrs, session, userDocs, USER_UPDATE_FIELDS,
                   reported, opKind, opEmail, attempts, lastAnswer,
                   isLoggedInLocal, logoutResult, sessionAtStart, docCreated, nameWrite>>
    /\ UNCHANGED nonAuthVars

(***************************************************************************)
(* auth.ts 365-423 updateProfile                                           *)
(***************************************************************************)
\* 365-367: updateProfile(data) is called; validateConfig().  The payload
\* holds data until it is sanitized at 379.
updateProfile(data) ==
    /\ Begin("updateProfile", None)
    /\ payload' = data
    /\ IF configOk THEN Goto("update_accountGet") ELSE Throw
    /\ UNCHANGED backendVars
    /\ UNCHANGED nonAuthVars

\* 369-379: account.get(); account.updateName(data.name) when data.name is
\* set, a failure of which is only logged; then
\* remainingPayload = sanitizeUserUpdateData(data).
update_accountGet ==
    /\ pc = "update_accountGet"
    /\ \E ok \in (IF session # None THEN BOOLEAN ELSE {FALSE}) :
          IF ok
          THEN /\ opUser' = session
               /\ \E updateNameOk \in (IF "name" \in payload THEN BOOLEAN ELSE {FALSE}) :
                     nameWrite' = [inData |-> "name" \in payload,
                                   account |-> updateNameOk,
                                   document |-> FALSE]
               /\ payload' = sanitizeUserUpdateData(payload)
               /\ nFields' = Cardinality(payload')
               /\ initialPayload' = payload'
               /\ Goto("update_loop")
          ELSE /\ UNCHANGED <<opUser, payload, nFields, initialPayload, nameWrite>>
               /\ Throw
    /\ UNCHANGED <<backendVars, USER_UPDATE_FIELDS, reported, opKind, opEmail,
                   attempts, lastAnswer, isLoggedInLocal, logoutResult,
                   sessionAtStart, docCreated>>
    /\ UNCHANGED nonAuthVars

\* 381-390: nothing left to write: the existing document is returned.
update_getDocument ==
    /\ pc = "update_loop"
    /\ payload = {}
    /\ \E ok \in (IF opUser \in userDocs THEN BOOLEAN ELSE {FALSE}) :
          IF ok THEN Return(opUser) ELSE Throw
    /\ UNCHANGED <<backendVars, USER_UPDATE_FIELDS, reported, opKind, opEmail,
                   opUser, payload, nFields, initialPayload, attempts, lastAnswer,
                   isLoggedInLocal, logoutResult, sessionAtStart, docCreated, nameWrite>>
    /\ UNCHANGED nonAuthVars

\* 392-417: one updateDocument attempt.
update_updateDocument ==
    /\ pc = "update_loop"
    /\ payload # {}
    /\ attempts < AttemptCap
    /\ attempts' = attempts + 1
    /\ \E ans \in UpdateDocumentAnswers(opUser, payload) :
          LET unknownAttribute == extractUnknownAttribute(ans) IN
          /\ lastAnswer' = ans
          /\ CASE ans = "ok" ->
                    /\ nameWrite' = [nameWrite EXCEPT !.document = "name" \in payload]
                    /\ Return(opUser)
                    /\ UNCHANGED <<payload, USER_UPDATE_FIELDS, reported>>
               [] ans # "ok" /\ unknownAttribute = None ->
                    /\ Throw
                    /\ UNCHANGED <<payload, USER_UPDATE_FIELDS, reported, nameWrite>>
               [] OTHER ->
                    /\ reported' = reported \cup {unknownAttribute}
                    /\ payload' = DeleteField(payload, unknownAttribute)
                    /\ USER_UPDATE_FIELDS' =
                         IF isUserUpdatableField(unknownAttribute)
                         THEN USER_UPDATE_FIELDS \ {unknownAttribute}
                         ELSE USER_UPDATE_FIELDS
                    /\ Goto("update_loop")
                    /\ UNCHANGED nameWrite
    /\ UNCHANGED <<backendVars, opKind, opEmail, opUser, nFields, initialPayload,
                   isLoggedInLocal, logoutResult, sessionAtStart, docCreated>>
    /\ UNCHANGED nonAuthVars

(***************************************************************************)
(* auth.ts 304-326 logout, logoutAllSessions                               *)
(***************************************************************************)
\* 304-314: account.deleteSession('current'); a failure whose message names a
\* session, or has no message, is swallowed, any other is thrown.
logout ==
    /\ Begin("logout", None)
    /\ \E res \in {"ok", "swallowed", "thrown"} :
          /\ session' = IF res = "ok" THEN None ELSE session
          /\ IF res = "thrown" THEN Throw ELSE Return(None)
    /\ UNCHANGED <<configOk, missingAttrs, accounts, userDocs, payload>>
    /\ UNCHANGED nonAuthVars

\* 316-326: account.deleteSessions(), with the same catch.
logoutAllSessions ==
    /\ Begin("logoutAllSessions", None)
    /\ \E res \in {"ok", "swallowed", "thrown"} :
          /\ session' = IF res = "ok" THEN None ELSE session
          /\ IF res = "thrown" THEN Throw ELSE Return(None)
    /\ UNCHANGED <<configOk, missingAttrs, accounts, userDocs, payload>>
    /\ UNCHANGED nonAuthVars

(***************************************************************************)
(* auth.ts 434-452 getUserProfile                                          *)
(***************************************************************************)
getUserProfile(userId) ==
    /\ pc = "idle"
    /\ opKind' = "getUserProfile"
    /\ opEmail' = None
    /\ opUser' = userId
    /\ sessionAtStart' = session
    /\ \E ans \in GetDocumentAnswers(userId) :
          /\ lastAnswer' = ans
          /\ CASE getUserProfileResult(ans) = "user" -> Return(userId)
               [] getUserProfileResult(ans) = "null" -> Return(None)
               [] OTHER -> Throw
    /\ UNCHANGED <<backendVars, USER_UPDATE_FIELDS, reported, payload, nFields,
                   initialPayload, attempts, isLoggedInLocal, logoutResult,
                   docCreated, nameWrite>>
    /\ UNCHANGED nonAuthVars

\* The caller has the result; the service is idle again.
Finish ==
    /\ pc = "done"
    /\ pc' = "idle"
    /\ opKind' = "none"
    /\ opEmail' = None
    /\ opUser' = None
    /\ payload' = {}
    /\ nFields' = 0
    /\ initialPayload' = {}
    /\ attempts' = 0
    /\ lastAnswer' = "none"
    /\ isLoggedInLocal' = FALSE
    /\ logoutResult' = "notcalled"
    /\ sessionAtStart' = None
    /\ docCreated' = FALSE
    /\ nameWrite' = NoNameWrite
    /\ outcome' = "none"
    /\ retUser' = None
    /\ UNCHANGED <<backendVars, USER_UPDATE_FIELDS, reported>>
    /\ UNCHANGED nonAuthVars

Next ==
    \/ \E e \in Ids : login(e)
    \/ login_isLoggedIn
    \/ login_getCurrentUser
    \/ login_logoutAllSessions
    \/ login_createSession
    \/ login_getCurrentUser2
    \/ login_accountGet
    \/ login_getCurrentUser3
    \/ createUserDocument
    \/ \E e \in Ids : register(e)
    \/ register_accountCreate
    \/ \E d \in {k \in SUBSET DataKeys : Cardinality(k) <= MaxDataKeys} :
          updateProfile(d)
    \/ update_accountGet
    \/ update_getDocument
    \/ update_updateDocument
    \/ logout
    \/ logoutAllSessions
    \/ \E id \in Ids : getUserProfile(id)
    \/ Finish

Init == AuthInit /\ MapperIdle /\ ListingIdle /\ PortfolioIdle /\ PageIdle

Spec == Init /\ [][Next]_vars

(***************************************************************************)
(* SpecWriter: createUserDocument (auth.ts 150-188) called on its own with *)
(* any payload, against a collection that lacks some attributes.           *)
(***************************************************************************)
\* At most this many fields in the data handed to createUserDocument.
MaxWriterFields == 2

\* createUserDocument(userId, data) is entered: payload = { ...data }.
WriterInit ==
    /\ configOk = TRUE
    /\ missingAttrs \in {m \in SUBSET DriftCandidates : Cardinality(m) <= MaxDrift}
    /\ accounts = {"A"}
    /\ session = "A"
    /\ userDocs = {}
    /\ USER_UPDATE_FIELDS = UserUpdatableField
    /\ reported = {}
    /\ pc = "createUserDocument"
    /\ opKind = "createUserDocument"
    /\ opEmail = None
    /\ opUser = "A"
    /\ payload \in {d \in SUBSET Fields : Cardinality(d) \in 1..MaxWriterFields}
    /\ nFields = Cardinality(payload)
    /\ initialPayload = payload
    /\ attempts = 0
    /\ lastAnswer = "none"
    /\ isLoggedInLocal = FALSE
    /\ logoutResult = "notcalled"
    /\ sessionAtStart = "A"
    /\ docCreated = FALSE
    /\ nameWrite = NoNameWrite
    /\ outcome = "none"
    /\ retUser = None

WriterNext == createUserDocument \/ Finish

InitWriter == WriterInit /\ MapperIdle /\ ListingIdle /\ PortfolioIdle /\ PageIdle

SpecWriter == InitWriter /\ [][WriterNext]_vars

\* C11: in createUserDocument no write attempt is made with an empty payload,
\* and when removing unknown fields has left the payload empty the call has
\* failed (the terminal 'No valid fields remain' error) without having
\* created the document.
C11_EmptyPayloadIsTerminal ==
    /\ pc = "createUserDocument" => payload # {}
    /\ (opKind # "updateProfile" /\ attempts > 0 /\ payload = {}) =>
          /\ pc = "done"
          /\ outcome = "thrown"
          /\ ~docCreated
          /\ lastAnswer \notin {"ok", "other"}

\* A payload of two fields, both stripped, and the call failed.
C11_Witness ==
    /\ attempts = 2
    /\ initialPayload # {}
    /\ payload = {}
    /\ outcome = "thrown"

(***************************************************************************)
(* Claims about the AuthService, checked under Spec.                       *)
(***************************************************************************)

\* C1: a schema-drift writer (createUserDocument, the loop of updateProfile)
\* started with a payload of n fields makes at most n+1 write attempts,
\* whatever the backend answers.
C1_AtMostNPlusOneAttempts == attempts <= nFields + 1

\* A writer that stripped field after field (two attempts or more, one per
\* field of its payload) and then returned.
C1_Witness ==
    /\ pc = "done"
    /\ outcome = "returned"
    /\ attempts >= 2
    /\ attempts = nFields

C3_SameIdentityLoginKeepsSession ==
    (opKind = "login" /\ sessionAtStart = opEmail) =>
        /\ pc \notin {"login_logoutAllSessions", "login_createSession"}
        /\ session = sessionAtStart

\* C4: whenever login returns a User, the backend holds a session of that
\* identity and a profile document with the identity's id exists.
C4_LoginReturnsAuthenticated ==
    (pc = "done" /\ opKind = "login" /\ outcome = "returned") =>
        /\ retUser = opEmail
        /\ session = retUser
        /\ retUser \in userDocs

\* A login that returned a profile its own createUserDocument created.
C4_Witness ==
    /\ pc = "done"
    /\ opKind = "login"
    /\ outcome = "returned"
    /\ docCreated

\* C9 as stated: once an unknown-attribute failure has named f, no later
\* write attempt sends a payload that contains f.
C9_ReportedFieldNeverSentAgain ==
    [][attempts' = attempts + 1 => payload \cap reported = {}]_vars

\* C9 amended: once an unknown-attribute failure has named a field f other
\* than the mandatory identity fields name, email and createdBy, no later
\* write attempt sends a payload that contains f.
C9_ReportedOptionalFieldNeverSentAgain ==
    [][attempts' = attempts + 1 =>
          payload \cap (reported \ {"name", "email", "createdBy"}) = {}]_vars

\* A register whose payload was built without a default field that an
\* earlier call found unknown, and that has made a write attempt.
C9_Witness ==
    /\ opKind = "register"
    /\ attempts >= 1
    /\ nFields < Cardinality(RegisterDefaults) + Cardinality(MandatoryFields)
    /\ reported \ {"name", "email", "createdBy"} # {}

\* C10: in createUserDocument an unknown-attribute failure naming name, email
\* or createdBy is propagated at once: the call has thrown, the field is
\* still in the payload, and no further attempt can follow.
C10_MandatoryFailurePropagates ==
    (opKind \in {"login", "register"}
        /\ lastAnswer \in {"name", "email", "createdBy"}) =>
        /\ pc = "done"
        /\ outcome = "thrown"
        /\ lastAnswer \in payload

\* A register that had an optional field stripped and then failed on
\* createdBy.
C10_Witness ==
    /\ opKind = "register"
    /\ lastAnswer = "createdBy"
    /\ attempts >= 2
    /\ outcome = "thrown"


\* C12 as stated: when login throws, the backend session is the one that was
\* active when login was called.
C12_RejectedLoginKeepsSessions ==
    (pc = "done" /\ opKind = "login" /\ outcome = "thrown") =>
        session = sessionAtStart

\* C13 as stated: when logout or logoutAllSessions returns without throwing,
\* this client has no active session on the backend.
C13_LogoutSuccessMeansNoSession ==
    (pc = "done" /\ opKind \in {"logout", "logoutAllSessions"}
        /\ outcome = "returned") =>
        session = None

\* C14: getUserProfile(id) returns null exactly when the backend answers
\* not-found (404), throws for every other failure, and returns a User only
\* for an id whose profile document exists.
C14_ProfileNotFoundIsNull ==
    (pc = "done" /\ opKind = "getUserProfile") =>
        /\ (outcome = "returned" /\ retUser = None) <=> lastAnswer = "404"
        /\ outcome = "thrown" <=> lastAnswer \in {"other", "config"}
        /\ (outcome = "returned" /\ retUser # None) =>
              /\ lastAnswer = "ok"
              /\ retUser = opUser
              /\ retUser \in userDocs

\* The profile of an id that has no document was asked for while another id
\* has one: the answer was 404 and null was returned.
C14_Witness ==
    /\ pc = "done"
    /\ opKind = "getUserProfile"
    /\ opUser \notin userDocs
    /\ userDocs # {}
    /\ lastAnswer = "404"
    /\ outcome = "returned"
    /\ retUser = None

\* C19: in the schema-drift writer each retry payload is the previous payload
\* with exactly the reported unknown field removed, and the payload of the
\* successful attempt is the initial payload minus the fields the backend
\* reported unknown.
C19_RetryRemovesExactlyTheReportedField ==
    /\ [][(attempts' = attempts + 1
             /\ lastAnswer' \notin {"ok", "other"}
             /\ pc' \in {"createUserDocument", "update_loop"}) =>
            (lastAnswer' \in payload /\ payload' = payload \ {lastAnswer'})]_vars
    /\ []((lastAnswer = "ok"
             /\ opKind \in {"login", "register", "updateProfile",
                            "createUserDocument"}) =>
            payload = initialPayload \ reported)

\* A writer succeeded at its third attempt, with two fields of its initial
\* payload removed.
C19_Witness ==
    /\ lastAnswer = "ok"
    /\ attempts = 3
    /\ Cardinality(initialPayload \ payload) = 2
    /\ payload # {}

\* C15 as stated: with a required configuration identifier absent, no call
\* gets past its entry: it has failed before any request to the backend
\* (login's first request is the account.get() of isLoggedIn).
C15_ConfigCheckedBeforeBackendCall ==
    ~configOk => pc \in {"idle", "done", "login_isLoggedIn"}

\* C17 as stated: whenever register returns a User, the backend holds a
\* session of the new identity and its profile document exists.
C17_RegisterReturnsAuthenticated ==
    (pc = "done" /\ opKind = "register" /\ outcome = "returned") =>
        /\ session = retUser
        /\ retUser \in userDocs

\* C20 as stated: in updateProfile an unknown-attribute failure naming name is
\* propagated: the call has thrown, name is still in the payload and in the
\* set of updatable fields, and no retry follows.
C20_UpdateNameFailurePropagates ==
    (opKind = "updateProfile" /\ lastAnswer = "name") =>
        /\ pc = "done"
        /\ outcome = "thrown"
        /\ "name" \in payload
        /\ "name" \in USER_UPDATE_FIELDS

(***************************************************************************)
(* JavaScript values, as far as the record mappers tell them apart.        *)
(***************************************************************************)
Undefined == [t |-> "undefined"]
Null == [t |-> "null"]
Str(s) == [t |-> "string", v |-> s]
Num(n) == [t |-> "number", v |-> n]
Bool(b) == [t |-> "boolean", v |-> b]
\* An array holds a sequence of values, an object a set of <<key, value>>.
Arr(a) == [t |-> "array", v |-> a]
Obj(o) == [t |-> "object", v |-> o]

\* ToBoolean: undefined, null, "", 0 and false are falsy.
Truthy(x) ==
    CASE x.t \in {"undefined", "null"} -> FALSE
      [] x.t = "string" -> x.v # ""
      [] x.t = "number" -> x.v # 0
      [] x.t = "boolean" -> x.v
      [] OTHER -> TRUE

\* a || b
Or(a, b) == IF Truthy(a) THEN a ELSE b

\* String(item), for the items the model puts in arrays.
JSString(item) ==
    CASE item.t = "string" -> item.v
      [] item.t = "number" -> ToString(item.v)
      [] item.t = "boolean" -> (IF item.v THEN "true" ELSE "false")
      [] item.t = "null" -> "null"
      [] item.t = "undefined" -> "undefined"
      [] item.t = "array" -> ""
      [] OTHER -> "[object Object]"

\* Object.entries(value) of an object or an array.
ObjectEntries(value) ==
    IF value.t = "array"
    THEN {<<ToString(i - 1), value.v[i]>> : i \in DOMAIN value.v}
    ELSE value.v

(***************************************************************************)
(* auth.ts 106-148 and 484-513: the record mappers.                        *)
(***************************************************************************)
\* auth.ts 106-108, 484-486
toStringArray(value) ==
    IF value.t = "array"
    THEN Arr([i \in DOMAIN value.v |-> Str(JSString(value.v[i]))])
    ELSE Arr(<<>>)

\* auth.ts 110-129
normalizeSocialLinks(value) ==
    IF ~Truthy(value) \/ value.t \notin {"object", "array"}
    THEN Obj({})
    ELSE Obj({e \in ObjectEntries(value) : e[2].t = "string" /\ Truthy(e[2])})

\* The keys of a User and of a Project (auth.ts 646-696).
UserKeys ==
    {"$id", "name", "email", "bio", "avatar", "website", "location",
     "pronouns", "availability", "skills", "socialLinks", "createdAt",
     "updatedAt", "createdBy"}
ProjectKeys ==
    {"$id", "title", "description", "category", "tags", "images", "videos",
     "documents", "isPublic", "featured", "order", "userId", "createdBy",
     "coverImage", "liveUrl", "sourceUrl", "startDate", "endDate",
     "highlights", "techStack", "createdAt", "updatedAt"}

\* The attributes a backend record can carry: the system attributes and the
\* attributes of the two collections.
SystemAttrs == {"$id", "$createdAt", "$updatedAt"}
DocAttrs ==
    SystemAttrs \cup ((UserKeys \cup ProjectKeys) \ {"$id", "createdAt", "updatedAt"})

\* auth.ts 131-148
mapUserDocument(doc) ==
    [k \in UserKeys |->
        CASE k = "$id" -> doc["$id"]
          [] k = "skills" -> toStringArray(doc["skills"])
          [] k = "socialLinks" ->
                Or(normalizeSocialLinks(doc["socialLinks"]), Obj({}))
          [] k = "createdAt" -> doc["$createdAt"]
          [] k = "updatedAt" -> doc["$updatedAt"]
          [] OTHER -> Or(doc[k], Str(""))]

\* auth.ts 498 isPublic, with the default of a record that has no such
\* attribute.
isPublicOfDefaultPrivate(doc) ==
    IF doc["isPublic"] # Undefined THEN Bool(Truthy(doc["isPublic"]))
    ELSE Bool(FALSE)
isPublicOf(doc) ==
    IF doc["isPublic"] # Undefined THEN Bool(Truthy(doc["isPublic"]))
    ELSE Bool(TRUE)

\* auth.ts 488-513
mapProjectDoc(doc) ==
    [k \in ProjectKeys |->
        CASE k = "$id" -> doc["$id"]
          [] k = "category" -> Or(doc["category"], Str("uncategorized"))
          [] k \in {"tags", "images", "videos", "documents", "highlights",
                    "techStack"} -> toStringArray(doc[k])
          [] k = "isPublic" -> isPublicOf(doc)
          [] k = "featured" -> Bool(Truthy(doc["featured"]))
          [] k = "order" ->
                IF doc["order"].t = "number" THEN doc["order"] ELSE Num(0)
          [] k = "userId" -> Or(doc["userId"], Or(doc["createdBy"], Str("")))
          [] k = "createdBy" -> Or(doc["createdBy"], Or(doc["userId"], Str("")))
          [] k = "coverImage" ->
                Or(doc["coverImage"],
                   Or(IF toStringArray(doc["images"]).v = <<>> THEN Undefined
                      ELSE toStringArray(doc["images"]).v[1],
                      Str("")))
          [] k = "createdAt" -> doc["$createdAt"]
          [] k = "updatedAt" -> doc["$updatedAt"]
          [] OTHER -> Or(doc[k], Str(""))]

(***************************************************************************)
(* SpecMapper: the mappers applied to a record drawn from a bounded family *)
(* of record shapes.                                                       *)
(***************************************************************************)
\* At most this many attributes of the record hold an arbitrary value.
MaxMalformed == 1

\* The values an attribute can hold.
JSValues ==
    {Undefined, Null, Str(""), Str("x"), Num(0), Num(7), Bool(TRUE),
     Bool(FALSE), Arr(<<>>), Arr(<<Str("x"), Num(7), Null>>), Obj({}),
     Obj({<<"github", Str("x")>>, <<"medium", Num(7)>>, <<"x", Str("")>>})}

\* A record with nothing but the system attributes every backend document
\* has, and one with every attribute set to a value of its declared type.
BareDoc ==
    [a \in DocAttrs |-> IF a \in SystemAttrs THEN Str("x") ELSE Undefined]
FullDoc ==
    [a \in DocAttrs |->
        CASE a \in {"skills", "tags", "images", "videos", "documents",
                    "highlights", "techStack"} -> Arr(<<Str("x")>>)
          [] a = "socialLinks" -> Obj({<<"github", Str("x")>>})
          [] a \in {"isPublic", "featured"} -> Bool(FALSE)
          [] a = "order" -> Num(7)
          [] OTHER -> Str("x")]

\* base with the attributes of ks set to arbitrary values.
RECURSIVE Malformed(_, _)
Malformed(base, n) ==
    IF n = 0 THEN {base}
    ELSE LET less == Malformed(base, n - 1)
         IN less \cup {[d EXCEPT ![a] = v] :
                          d \in less, a \in DocAttrs \ SystemAttrs, v \in JSValues}

MapperInit ==
    /\ rawDoc \in Malformed(BareDoc, MaxMalformed) \cup Malformed(FullDoc, MaxMalformed)
    /\ mapKind = "none"
    /\ mapResult = <<>>

AuthIdle ==
    /\ configOk = TRUE
    /\ missingAttrs = {}
    /\ accounts = {}
    /\ session = None
    /\ userDocs = {}
    /\ USER_UPDATE_FIELDS = UserUpdatableField
    /\ reported = {}
    /\ IdleLocals

ApplyMapUserDocument ==
    /\ mapKind = "none"
    /\ mapKind' = "user"
    /\ mapResult' = mapUserDocument(rawDoc)
    /\ UNCHANGED <<rawDoc, authVars, listVars, portVars, pageVars>>

ApplyMapProjectDoc ==
    /\ mapKind = "none"
    /\ mapKind' = "project"
    /\ mapResult' = mapProjectDoc(rawDoc)
    /\ UNCHANGED <<rawDoc, authVars, listVars, portVars, pageVars>>

MapperNext == ApplyMapUserDocument \/ ApplyMapProjectDoc

InitMapper == AuthIdle /\ MapperInit /\ ListingIdle /\ PortfolioIdle /\ PageIdle

SpecMapper == InitMapper /\ [][MapperNext]_vars

(***************************************************************************)
(* Claims about the record mappers, checked under SpecMapper.              *)
(***************************************************************************)
IsStringList(x) == x.t = "array" /\ \A i \in DOMAIN x.v : x.v[i].t = "string"

UserStringKeys == UserKeys \ {"skills", "socialLinks"}
ProjectListKeys ==
    {"tags", "images", "videos", "documents", "highlights", "techStack"}
ProjectStringKeys ==
    ProjectKeys \ (ProjectListKeys \cup {"isPublic", "featured", "order"})

\* C8: every field of the entity a mapper returns has a value of its declared
\* type: strings are strings, lists are lists of strings (empty when the
\* record holds no list), socialLinks is a mapping, the flags are booleans
\* and order is a number, 0 when the record's order is not a number.
C8_MappedEntityIsTypeCorrect ==
    /\ mapKind = "user" =>
          /\ \A k \in UserStringKeys : mapResult[k].t = "string"
          /\ IsStringList(mapResult["skills"])
          /\ rawDoc["skills"].t # "array" => mapResult["skills"] = Arr(<<>>)
          /\ mapResult["socialLinks"].t = "object"
    /\ mapKind = "project" =>
          /\ \A k \in ProjectStringKeys : mapResult[k].t = "string"
          /\ \A k \in ProjectListKeys :
                /\ IsStringList(mapResult[k])
                /\ rawDoc[k].t # "array" => mapResult[k] = Arr(<<>>)
          /\ mapResult["isPublic"].t = "boolean"
          /\ mapResult["featured"].t = "boolean"
          /\ mapResult["order"].t = "number"
          /\ rawDoc["order"].t # "number" => mapResult["order"] = Num(0)

(***************************************************************************)
(* The projects collection of the backend and PortfolioService.getProjects *)
(* (auth.ts 575-610).                                                      *)
(***************************************************************************)
\* At most this many project documents are ever created.
MaxProjects == 3
\* The display orders a project form can give.
Orders == {1, 3}

\* The id ID.unique() gives the n-th document, and the ISO timestamp of
\* time t; DateParse is new Date(s).getTime().
IdString(n) == ToString(n)
DateString(t) == ToString(t)
DateParse(s) == CHOOSE t \in 0..(MaxProjects + 1) : DateString(t) = s

\* The record the backend returns for a stored project document
\* [id, userId, isPublic, order, createdAt].
RawProjectDoc(r) ==
    [a \in DocAttrs |->
        CASE a = "$id" -> Str(IdString(r.id))
          [] a \in {"userId", "createdBy"} -> Str(r.userId)
          [] a = "isPublic" -> r.isPublic
          [] a = "featured" -> Bool(FALSE)
          [] a = "order" -> Num(r.order)
          [] a \in {"$createdAt", "$updatedAt"} -> Str(DateString(r.createdAt))
          [] a \in {"title", "description", "category"} -> Str("x")
          [] a \in {"tags", "images", "videos", "documents", "highlights",
                    "techStack"} -> Arr(<<>>)
          [] OTHER -> Undefined]

\* auth.ts 579-587: the queries of getProjects.
getProjectsQueriesNoFilter(userId) ==
    IF userId # None
    THEN {[method |-> "equal", attribute |-> "userId", value |-> Str(userId)],
          [method |-> "orderAsc", attribute |-> "order", value |-> Null]}
    ELSE {[method |-> "orderAsc", attribute |-> "order", value |-> Null]}
getProjectsQueries(userId) ==
    IF userId # None
    THEN {[method |-> "equal", attribute |-> "userId", value |-> Str(userId)],
          [method |-> "orderAsc", attribute |-> "order", value |-> Null]}
    ELSE {[method |-> "equal", attribute |-> "isPublic", value |-> Bool(TRUE)],
          [method |-> "orderAsc", attribute |-> "order", value |-> Null]}

\* The elements of a finite set S as a sequence, smallest Key first.
SeqBy(S, Key(_)) ==
    LET rank(x) == Cardinality({y \in S : Key(y) < Key(x)}) + 1
    IN [p \in 1..Cardinality(S) |-> CHOOSE x \in S : rank(x) = p]

\* databases.listDocuments(projects, queries): the documents every equal
\* query matches, ascending by order (and by age among equal orders).
listDocuments(docs, queries) ==
    LET matches(r) ==
            \A q \in queries :
                q.method = "equal" => RawProjectDoc(r)[q.attribute] = q.value
        found == {r \in docs : matches(r)}
        key(r) == r.order * (MaxProjects + 1) + r.id
    IN [i \in 1..Cardinality(found) |-> RawProjectDoc(SeqBy(found, key)[i])]

\* Array.prototype.sort(compare): a stable sort of s.
SortWith(s, Compare(_, _)) ==
    LET before(j, i) ==
            \/ Compare(s[j], s[i]) < 0
            \/ Compare(s[j], s[i]) = 0 /\ j < i
        rank(i) == Cardinality({j \in DOMAIN s : before(j, i)}) + 1
    IN [p \in DOMAIN s |-> s[CHOOSE i \in DOMAIN s : rank(i) = p]]

\* auth.ts 597-605: the comparator of getProjects.
getProjectsCompare(a, b) ==
    IF a["order"] # b["order"]
    THEN a["order"].v - b["order"].v
    ELSE DateParse(b["createdAt"].v) - DateParse(a["createdAt"].v)

\* auth.ts 589-605: getProjects once validateConfig and listDocuments succeed.
getProjects(docs, userId) ==
    LET response == listDocuments(docs, getProjectsQueries(userId))
        mappedProjects == [i \in DOMAIN response |-> mapProjectDoc(response[i])]
    IN SortWith(mappedProjects, getProjectsCompare)

(***************************************************************************)
(* SpecListing: one getProjects call against a collection drawn from a     *)
(* bounded family: any caller, any owner argument.                         *)
(***************************************************************************)
\* At most this many documents in the collection.
MaxListDocs == 3

\* A document's owner, visibility and display order.
DocShapes ==
    [userId : Ids, isPublic : {Bool(TRUE), Bool(FALSE)}, order : Orders]

\* The $createdAt stamps of documents 1..n, in the order of creation: a
\* document is stamped with the time of the one before it (both created
\* within the resolution of the stamp) or with a later one.
Stamps(n) ==
    {t \in [1..n -> 1..n] :
        /\ n > 0 => t[1] = 1
        /\ \A i \in 1..(n - 1) : t[i + 1] \in {t[i], t[i] + 1}}

Collection(n, f, t) ==
    {[id |-> i, userId |-> f[i].userId, isPublic |-> f[i].isPublic,
      order |-> f[i].order, createdAt |-> t[i]] : i \in 1..n}

ListingInit ==
    /\ \E n \in 0..MaxListDocs : \E f \in [1..n -> DocShapes], t \in Stamps(n) :
          projDocs = Collection(n, f, t)
    /\ nextId = 1
    /\ clock = 1
    /\ user = None
    /\ projects = <<>>
    /\ loading = FALSE
    /\ error = "null"
    /\ settled = "none"
    /\ ops = <<>>
    /\ deleted = {}
    /\ calls = 0
    /\ listCall = NoListCall
    /\ listResult = <<>>

\* auth.ts 575-605: getProjects(userId) returns.
getProjectsReturns(userId) ==
    /\ listCall.st = "none"
    /\ listCall' = [st |-> "returned", userId |-> userId]
    /\ listResult' = getProjects(projDocs, userId)
    /\ UNCHANGED <<authVars, mapVars, portVars, pageVars>>

\* auth.ts 606-609: validateConfig or listDocuments failed.
getProjectsThrows(userId) ==
    /\ listCall.st = "none"
    /\ listCall' = [st |-> "thrown", userId |-> userId]
    /\ UNCHANGED <<listResult, authVars, mapVars, portVars, pageVars>>

ListingNext ==
    \/ \E u \in Ids \cup {None} : getProjectsReturns(u)
    \/ \E u \in Ids \cup {None} : getProjectsThrows(u)

InitListing == AuthIdle /\ MapperIdle /\ ListingInit /\ PageIdle

SpecListing == InitListing /\ [][ListingNext]_vars

(***************************************************************************)
(* Claims about getProjects, checked under SpecListing.                    *)
(***************************************************************************)
\* The ids of the projects of a list.
ListedIds(list) == {list[i]["$id"] : i \in DOMAIN list}

MaxOps == 2
\* At most this many provider calls are made in a behaviour.
MaxCalls == 3

\* A Partial<Project> of the keys the model writes; Undefined: key not given.
NoInput == [isPublic |-> Undefined, order |-> Undefined]
\* ProjectForm (part_003 108-110) submits a display order; the Dashboard
\* (Dashboard.tsx 132) submits { isPublic: !project.isPublic }.
ProjectInputs == {[NoInput EXCEPT !.order = Num(o)] : o \in Orders}
ProjectPatches(id) ==
    {[NoInput EXCEPT !.order = Num(o)] : o \in Orders}
      \cup {[NoInput EXCEPT !.isPublic = Bool(~projects[i]["isPublic"].v)] :
               i \in {j \in DOMAIN projects : projects[j]["$id"] = Str(IdString(id))}}

IdleOp ==
    [kind |-> "idle", st |-> "idle", userId |-> None, id |-> 0,
     input |-> NoInput, res |-> <<>>]

FreeSlots == {i \in DOMAIN ops : ops[i].kind = "idle"}
\* A call takes the first free slot.
Slot == CHOOSE i \in FreeSlots : \A j \in FreeSlots : i <= j

\* part_004 27-34: the comparator of sortProjects.
sortProjectsCompareOldestFirst(a, b) ==
    IF a["order"] # b["order"]
    THEN a["order"].v - b["order"].v
    ELSE DateParse(a["createdAt"].v) - DateParse(b["createdAt"].v)
sortProjectsCompare(a, b) ==
    IF a["order"] # b["order"]
    THEN a["order"].v - b["order"].v
    ELSE DateParse(b["createdAt"].v) - DateParse(a["createdAt"].v)

\* part_004 26-35
sortProjects(items) == SortWith(items, sortProjectsCompare)

\* part_004 85: prev.map(p => (p.$id === id ? updatedProject : p))
ReplaceById(prev, id, updatedProject) ==
    [i \in DOMAIN prev |->
        IF prev[i]["$id"] = Str(IdString(id)) THEN updatedProject ELSE prev[i]]

\* part_004 100: prev.filter(p => p.$id !== id)
FilterOutId(prev, id) ==
    LET keep == {i \in DOMAIN prev : prev[i]["$id"] # Str(IdString(id))}
        key(i) == i
    IN [p \in 1..Cardinality(keep) |-> prev[SeqBy(keep, key)[p]]]

\* part_004 38-40, 66-68, 81-83, 96-98: setLoading(true); setError(null),
\* and the request leaves.  The calls come from the Dashboard, which is
\* rendered only while a user is signed in (App.tsx, part_001 34).
StartCall(op) ==
    /\ user # None
    /\ calls < MaxCalls
    /\ FreeSlots # {}
    /\ calls' = calls + 1
    /\ loading' = TRUE
    /\ error' = "null"
    /\ ops' = [ops EXCEPT ![Slot] = op]
    /\ UNCHANGED <<projDocs, nextId, clock, user, projects, settled, deleted,
                   authVars, mapVars, listVars, pageVars>>

\* part_004 37-42
fetchProjects(userId) ==
    StartCall([IdleOp EXCEPT !.kind = "fetch", !.st = "sent",
                             !.userId = IF userId # None THEN userId ELSE user])

\* part_004 65-69
createProject(project) ==
    StartCall([IdleOp EXCEPT !.kind = "create", !.st = "sent", !.input = project])

\* The ids the interface can name: callers pass the $id of a listed project
\* (Dashboard.tsx 124, 132; ProjectForm part_003 108).
IsListed(id) == \E i \in DOMAIN projects : projects[i]["$id"] = Str(IdString(id))

\* part_004 80-84
updateProject(id, project) ==
    /\ IsListed(id)
    /\ StartCall([IdleOp EXCEPT !.kind = "update", !.st = "sent", !.id = id,
                             !.input = project])

\* part_004 95-99
deleteProject(id) ==
    /\ IsListed(id)
    /\ StartCall([IdleOp EXCEPT !.kind = "delete", !.st = "sent", !.id = id])

\* The backend answers the request of slot i with a failure (or
\* validateConfig threw before the request left).
ServiceFails(i) ==
    /\ ops[i].st = "sent"
    /\ ops' = [ops EXCEPT ![i].st = "err"]
    /\ UNCHANGED <<projDocs, nextId, clock, user, projects, loading, error,
                   settled, deleted, calls, authVars, mapVars, listVars, pageVars>>

\* auth.ts 575-605: getProjects served.
ServeGetProjects(i) ==
    /\ ops[i].kind = "fetch" /\ ops[i].st = "sent"
    /\ ops' = [ops EXCEPT ![i].st = "ok",
                          ![i].res = getProjects(projDocs, ops[i].userId)]
    /\ UNCHANGED <<projDocs, nextId, clock, user, projects, loading, error,
                   settled, deleted, calls, authVars, mapVars, listVars, pageVars>>

\* auth.ts 515-543: createProject served: account.get(), then createDocument
\* with a fresh id; the backend stamps $createdAt.
ServeCreateProject(i) ==
    /\ ops[i].kind = "create" /\ ops[i].st = "sent"
    /\ session # None
    /\ nextId <= MaxProjects
    /\ LET t == clock + 1
           projectData ==
                  [id |-> nextId,
                   userId |-> session,
                   isPublic |-> IF ops[i].input.isPublic \in {Undefined, Null}
                                THEN Bool(TRUE) ELSE ops[i].input.isPublic,
                   order |-> IF ops[i].input.order.t = "number"
                             THEN ops[i].input.order.v ELSE 0,
                   createdAt |-> t]
       IN /\ projDocs' = projDocs \cup {projectData}
             /\ clock' = t
             /\ ops' = [ops EXCEPT ![i].st = "ok",
                                   ![i].res = <<mapProjectDoc(RawProjectDoc(projectData))>>]
    /\ nextId' = nextId + 1
    /\ UNCHANGED <<user, projects, loading, error, settled, deleted, calls,
                   authVars, mapVars, listVars, pageVars>>

\* auth.ts 550-559: updateProject served: updateDocument of an existing
\* document with the keys given.
ServeUpdateProject(i) ==
    /\ ops[i].kind = "update" /\ ops[i].st = "sent"
    /\ \E d \in projDocs :
          /\ d.id = ops[i].id
          /\ LET projectDoc ==
                     [d EXCEPT
                        !.isPublic = IF ops[i].input.isPublic = Undefined
                                     THEN @ ELSE ops[i].input.isPublic,
                        !.order = IF ops[i].input.order = Undefined
                                  THEN @ ELSE ops[i].input.order.v]
             IN /\ projDocs' = (projDocs \ {d}) \cup {projectDoc}
                /\ ops' = [ops EXCEPT ![i].st = "ok",
                                      ![i].res = <<mapProjectDoc(RawProjectDoc(projectDoc))>>]
    /\ UNCHANGED <<nextId, clock, user, projects, loading, error, settled,
                   deleted, calls, authVars, mapVars, listVars, pageVars>>

\* auth.ts 566-568: deleteProject served: deleteDocument of an existing
\* document.
ServeDeleteProject(i) ==
    /\ ops[i].kind = "delete" /\ ops[i].st = "sent"
    /\ \E d \in projDocs :
          /\ d.id = ops[i].id
          /\ projDocs' = projDocs \ {d}
    /\ ops' = [ops EXCEPT ![i].st = "ok"]
    /\ UNCHANGED <<nextId, clock, user, projects, loading, error, settled,
                   deleted, calls, authVars, mapVars, listVars, pageVars>>

\* part_004 43, 70, 85, 100 and the finally blocks: the response of slot i is
\* applied to the in-memory list.
CompleteOk(i) ==
    /\ ops[i].st = "ok"
    /\ projects' =
          CASE ops[i].kind = "fetch" -> sortProjects(ops[i].res)
            [] ops[i].kind = "create" ->
                  sortProjects(Append(projects, ops[i].res[1]))
            [] ops[i].kind = "update" ->
                  sortProjects(ReplaceById(projects, ops[i].id, ops[i].res[1]))
            [] OTHER -> FilterOutId(projects, ops[i].id)
    /\ deleted' = IF ops[i].kind = "delete"
                  THEN deleted \cup {Str(IdString(ops[i].id))} ELSE deleted
    /\ loading' = FALSE
    /\ settled' = "resolved"
    /\ ops' = [ops EXCEPT ![i] = IdleOp]
    /\ UNCHANGED <<projDocs, nextId, clock, user, error, calls, authVars,
                   mapVars, listVars, pageVars>>

\* part_004 74, 89, 104: the catch blocks of createProject, updateProject
\* and deleteProject end with throw error; the one of fetchProjects (44-46)
\* does not.
RethrowsNever(kind) == FALSE
Rethrows(kind) == kind \in {"create", "update", "delete"}

\* part_004 44-49, 71-77, 86-92, 101-107: the catch and finally blocks.
CompleteErr(i) ==
    /\ ops[i].st = "err"
    /\ error' = "message"
    /\ loading' = FALSE
    /\ settled' = IF Rethrows(ops[i].kind) THEN "rejected" ELSE "resolved"
    /\ ops' = [ops EXCEPT ![i] = IdleOp]
    /\ UNCHANGED <<projDocs, nextId, clock, user, projects, deleted, calls,
                   authVars, mapVars, listVars, pageVars>>

\* Dashboard.tsx 101 and part_004 58-63: the user logs out, useAuth().user
\* becomes null and the effect clears the list and the error.  The backend
\* session is deleted, or stays when the failure of its deletion was swallowed
\* (auth.ts 307-313).
logoutEffect ==
    /\ user # None
    /\ user' = None
    /\ \E s \in {None, session} : session' = s
    /\ projects' = <<>>
    /\ error' = "null"
    /\ UNCHANGED <<projDocs, nextId, clock, loading, settled, ops, deleted, calls,
                   configOk, missingAttrs, accounts, userDocs,
                   USER_UPDATE_FIELDS, opVars, reported, mapVars, listVars, pageVars>>

\* A signed-in user on the dashboard, an empty collection.
PortfolioInit ==
    /\ projDocs = {}
    /\ nextId = 1
    /\ clock = 1
    /\ user = "A"
    /\ projects = <<>>
    /\ loading = FALSE
    /\ error = "null"
    /\ settled = "none"
    /\ ops = [i \in 1..MaxOps |-> IdleOp]
    /\ deleted = {}
    /\ calls = 0

AuthSignedIn ==
    /\ configOk = TRUE
    /\ missingAttrs = {}
    /\ accounts = {user}
    /\ session = user
    /\ userDocs = {user}
    /\ USER_UPDATE_FIELDS = UserUpdatableField
    /\ reported = {}
    /\ IdleLocals

PortfolioNext ==
    \/ \E u \in {None, user} : fetchProjects(u)
    \/ \E project \in ProjectInputs : createProject(project)
    \/ \E id \in 1..MaxProjects : \E project \in ProjectPatches(id) : updateProject(id, project)
    \/ \E id \in 1..MaxProjects : deleteProject(id)
    \/ \E i \in 1..MaxOps : ServiceFails(i)
    \/ \E i \in 1..MaxOps : ServeGetProjects(i)
    \/ \E i \in 1..MaxOps : ServeCreateProject(i)
    \/ \E i \in 1..MaxOps : ServeUpdateProject(i)
    \/ \E i \in 1..MaxOps : ServeDeleteProject(i)
    \/ \E i \in 1..MaxOps : CompleteOk(i)
    \/ \E i \in 1..MaxOps : CompleteErr(i)
    \/ logoutEffect

InitPortfolio == PortfolioInit /\ AuthSignedIn /\ MapperIdle /\ ListingIdle /\ PageIdle

SpecPortfolio == InitPortfolio /\ [][PortfolioNext]_vars

(***************************************************************************)
(* Claims about the project lists.                                         *)
(***************************************************************************)
OrderOf(p) == p["order"].v
TimeOf(p) == DateParse(p["createdAt"].v)

\* Ascending display order; among equal display orders, newest first.
IsSortedForDisplay(list) ==
    \A i, j \in DOMAIN list :
        i < j =>
            \/ OrderOf(list[i]) < OrderOf(list[j])
            \/ /\ OrderOf(list[i]) = OrderOf(list[j])
               /\ TimeOf(list[i]) >= TimeOf(list[j])

\* C6: the list getProjects returns to a fetch, and the in-memory project
\* list after every completed fetchProjects, createProject, updateProject and
\* deleteProject in any order, is sorted by ascending display order and, among
\* records of equal display order, by descending creation time.
C6_ListsSortedForDisplay ==
    /\ IsSortedForDisplay(projects)
    /\ \A i \in DOMAIN ops :
          ops[i].kind = "fetch" /\ ops[i].st = "ok" => IsSortedForDisplay(ops[i].res)

\* Projects created with orders 3, 1, 1 at strictly increasing times are held
\* as [1 newer, 1 older, 3].
C6_Witness ==
    /\ Len(projects) = 3
    /\ <<OrderOf(projects[1]), OrderOf(projects[2]), OrderOf(projects[3])>> = <<1, 1, 3>>
    /\ <<projects[1]["$id"], projects[2]["$id"], projects[3]["$id"]>>
          = <<Str(IdString(3)), Str(IdString(2)), Str(IdString(1))>>
    /\ TimeOf(projects[3]) < TimeOf(projects[2])
    /\ TimeOf(projects[2]) < TimeOf(projects[1])

\* C18 as stated: whenever no user is signed in, the in-memory project list
\* is empty.
C18_NoUserNoProjects == user = None => projects = <<>>

\* C16 as stated: the comparators of getProjects and of sortProjects never
\* return 0 for two distinct records of a listing.
C16_ComparatorsNeverTie ==
    listCall.st = "returned" =>
        \A i, j \in DOMAIN listResult :
            i # j =>
                /\ getProjectsCompare(listResult[i], listResult[j]) # 0
                /\ sortProjectsCompare(listResult[i], listResult[j]) # 0

\* C7: once deleteProject(id) has completed successfully, no state of the
\* in-memory project list contains a project with that id, under every
\* interleaving of fetchProjects and deleteProject completions (ids are never
\* issued twice, so no created project carries a deleted id).
C7_DeletedProjectNeverListed ==
    \A i \in DOMAIN projects : projects[i]["$id"] \notin deleted



(***************************************************************************)
(* Further claims about the AuthService, checked under Spec.               *)
(***************************************************************************)
\* C21: when updateProfile ends with a payload that was not empty at first
\* and that the removal of unknown fields has emptied, it has thrown.
C21_EmptiedUpdateFails ==
    (opKind = "updateProfile" /\ pc = "done" /\ initialPayload # {}
       /\ payload = {}) => outcome = "thrown"

\* C23: a write attempt of createUserDocument or updateProfile that the
\* backend fails with anything but an unknown-attribute failure ends the
\* call by throwing, with the payload and USER_UPDATE_FIELDS as they were
\* before the attempt; no attempt follows it.
C23_OtherFailurePropagates ==
    [][(/\ opKind \in {"login", "register", "updateProfile"}
        /\ attempts' = attempts + 1
        /\ lastAnswer' = "other")
         => (/\ pc' = "done"
             /\ outcome' = "thrown"
             /\ payload' = payload
             /\ USER_UPDATE_FIELDS' = USER_UPDATE_FIELDS)]_vars

\* The second attempt of a writer, made after one field was removed, failed
\* with another kind of failure.
C23_Witness ==
    /\ opKind \in {"register", "updateProfile"}
    /\ attempts = 2
    /\ lastAnswer = "other"
    /\ outcome = "thrown"
    /\ Cardinality(payload) < nFields

\* C24: in createUserDocument as register and login call it, name, email and
\* createdBy stay in the payload through every removal, so the payload is
\* never empty.
C24_CallersNeverEmptyThePayload ==
    (opKind \in {"login", "register"} /\ attempts > 0) =>
        /\ MandatoryFields \subseteq payload
        /\ payload # {}

\* register had optional fields removed from its payload and writes again.
C24_Witness ==
    /\ opKind = "register"
    /\ pc = "createUserDocument"
    /\ attempts > 0
    /\ Cardinality(payload) < nFields

\* C27: when updateProfile has returned for data holding a name, both the
\* account and the profile document took the name; when it has thrown,
\* neither did.
C27_NamesAgree ==
    (opKind = "updateProfile" /\ pc = "done") =>
        /\ (outcome = "returned" /\ nameWrite.inData) =>
              (nameWrite.account /\ nameWrite.document)
        /\ outcome = "thrown" => (~nameWrite.account /\ ~nameWrite.document)


(***************************************************************************)
(* Further claims about the PortfolioProvider, checked under SpecPortfolio.*)
(***************************************************************************)
\* C22: the step in which a failed createProject, updateProject or
\* deleteProject ends leaves the in-memory list as it is, stores the message
\* in error and rejects the caller's promise; the list changes only in a step
\* that applies a successful response (or clears it at sign-out).
C22_FailedCallLeavesList ==
    [][/\ \A i \in DOMAIN ops :
            (/\ ops[i].kind \in {"create", "update", "delete"}
             /\ ops[i].st = "err"
             /\ ops'[i] = IdleOp)
              => (/\ projects' = projects
                  /\ error' = "message"
                  /\ settled' = "rejected")
       /\ projects' # projects =>
            \/ \E i \in DOMAIN ops : ops[i].st = "ok" /\ ops'[i] = IdleOp
            \/ user # None /\ user' = None]_vars

\* A call has failed while the list held a project: the list still holds it.
C22_Witness ==
    /\ settled = "rejected"
    /\ error = "message"
    /\ Len(projects) >= 1

\* C25: loading is true whenever a provider call is in flight.
C25_LoadingWhileInFlight ==
    (\E i \in DOMAIN ops : ops[i].kind # "idle") => loading = TRUE

\* C26: no two entries of the in-memory list have the same $id.
C26_NoDuplicateIds ==
    \A i, j \in DOMAIN projects :
        projects[i]["$id"] = projects[j]["$id"] => i = j

\* C30: the backend's acknowledgment of a visibility toggle request leaves
\* the stored isPublic of the project different from what it was before.
C30_EachToggleFlips ==
    [][\A i \in DOMAIN ops :
          (/\ ops[i].kind = "update"
           /\ ops[i].input.isPublic # Undefined
           /\ ops[i].st = "sent"
           /\ ops'[i].st = "ok")
            => \A d \in projDocs : \A e \in projDocs' :
                  (d.id = ops[i].id /\ e.id = ops[i].id)
                     => e.isPublic # d.isPublic]_vars


(***************************************************************************)
(* SpecPublic: the PublicPortfolio page (ProfileDrawer.tsx 445-538) over a *)
(* backend whose profiles and projects do not change while it is shown.    *)
(***************************************************************************)
\* At most this many documents in the projects collection.
MaxPageDocs == 2
\* At most this many runs of the page's effect in a behaviour.
MaxVisits == 2

\* A stored project's owner and visibility; Undefined: the document was
\* stored without the isPublic attribute.
PageDocShapes ==
    [userId : Ids, isPublic : {Bool(TRUE), Bool(FALSE), Undefined}, order : {1}]

\* ProfileDrawer.tsx 477: portfolioProjects.filter(project => project.isPublic)
IsShownPublicly(project) == Truthy(project["isPublic"])
FilterPublic(portfolioProjects) == SelectSeq(portfolioProjects, IsShownPublicly)

\* ProfileDrawer.tsx 511-538: what the page renders: nothing of the owner
\* while loading or with an error set.
DisplayedOwner ==
    IF page.loading \/ page.error # "" THEN None ELSE page.owner
DisplayedProjects ==
    IF DisplayedOwner = None THEN <<>> ELSE page.projects

\* ProfileDrawer.tsx 452-461, 487: the page is mounted at /portfolio/:userId,
\* or the route's userId changes while it is mounted: the effect runs.
visit(userId) ==
    /\ visits < MaxVisits
    /\ visits = 0 \/ userId # page.userId
    /\ visits' = visits + 1
    /\ IF userId = None
       THEN /\ page' = [page EXCEPT !.userId = userId,
                                    !.error = "Portfolio not found.",
                                    !.loading = FALSE]
            /\ UNCHANGED loads
       ELSE /\ page' = [page EXCEPT !.userId = userId, !.loading = TRUE,
                                    !.error = ""]
            /\ loads' = Append(loads, userId)
    /\ UNCHANGED <<authVars, mapVars, listVars, portVars>>

\* ProfileDrawer.tsx 463-484: Promise.all of getUserProfile(userId) and
\* getProjects(userId) settles for the i-th call in flight and the rest of
\* loadPortfolio runs.
loadPortfolioSettles(i) ==
    /\ i \in DOMAIN loads
    /\ \E ans \in GetDocumentAnswers(loads[i]), listed \in BOOLEAN :
          LET userId == loads[i]
              profile == getUserProfileResult(ans)
          IN page' =
               CASE profile = "throw" \/ ~listed ->
                      [page EXCEPT !.error = "message", !.owner = None,
                                   !.projects = <<>>, !.loading = FALSE]
                 [] profile = "null" ->
                      [page EXCEPT
                         !.error = "This portfolio does not exist or is private.",
                         !.owner = None, !.projects = <<>>, !.loading = FALSE]
                 [] OTHER ->
                      [page EXCEPT
                         !.owner = userId,
                         !.projects = FilterPublic(getProjects(projDocs, userId)),
                         !.loading = FALSE]
    /\ loads' = [j \in 1..(Len(loads) - 1) |-> IF j < i THEN loads[j] ELSE loads[j + 1]]
    /\ UNCHANGED <<visits, authVars, mapVars, listVars, portVars>>

\* Any profiles and any small projects collection; nobody is signed in.
PublicInit ==
    /\ configOk = TRUE
    /\ missingAttrs = {}
    /\ userDocs \in SUBSET Ids
    /\ accounts = userDocs
    /\ session = None
    /\ USER_UPDATE_FIELDS = UserUpdatableField
    /\ reported = {}
    /\ IdleLocals
    /\ \E n \in 0..MaxPageDocs : \E f \in [1..n -> PageDocShapes] :
          projDocs = Collection(n, f, [i \in 1..n |-> i])
    /\ nextId = 1
    /\ clock = 1
    /\ user = None
    /\ projects = <<>>
    /\ loading = FALSE
    /\ error = "null"
    /\ settled = "none"
    /\ ops = <<>>
    /\ deleted = {}
    /\ calls = 0

PublicNext ==
    \/ \E userId \in Ids \cup {None} : visit(userId)
    \/ \E i \in 1..MaxVisits : loadPortfolioSettles(i)

InitPublic == PublicInit /\ MapperIdle /\ ListingIdle /\ PageIdle

SpecPublic == InitPublic /\ [][PublicNext]_vars

\* C28: every project the page displays belongs to the owner of the route
\* and is mapped public, and the page displays a profile only of that owner
\* and only when the owner has one.
C28_PublicPageScope ==
    /\ \A i \in DOMAIN DisplayedProjects :
          /\ DisplayedProjects[i]["userId"] = Str(page.userId)
          /\ DisplayedProjects[i]["isPublic"] = Bool(TRUE)
    /\ DisplayedOwner # None =>
          (DisplayedOwner = page.userId /\ DisplayedOwner \in userDocs)

(***************************************************************************)
(* A further claim about the mappers, checked under SpecMapper.            *)
(***************************************************************************)
\* C29: mapProjectDoc gives a record without isPublic the value true, which
\* passes the filter of the public page, and a record without featured the
\* value false.
C29_DefaultVisibilityIsPublic ==
    mapKind = "project" =>
        /\ rawDoc["isPublic"] = Undefined =>
              (mapResult["isPublic"] = Bool(TRUE) /\ IsShownPublicly(mapResult))
        /\ rawDoc["featured"] = Undefined => mapResult["featured"] = Bool(FALSE)

\* A record with neither attribute was mapped.
C29_Witness ==
    /\ mapKind = "project"
    /\ rawDoc["isPublic"] = Undefined
    /\ rawDoc["featured"] = Undefined
    /\ mapResult["isPublic"] = Bool(TRUE)

=============================================================================
